---- MODULE Spec2Model ----
(***************************************************************************)
(* One invocation of the fsoc command line: `objstore create`,             *)
(* `objstore create-patch` or `solution status`.                           *)
(*                                                                         *)
(* A Go string is modelled as a sequence of tokens, so that the code's     *)
(* concatenations, its Sprintf formats and url.QueryEscape are computed    *)
(* and not assumed: "" is <<>>, "k8s:resource" is <<"k8s", ":",            *)
(* "resource">>.  The fields of the records the server returns are never   *)
(* taken apart by the client and stay plain strings.                       *)
(***************************************************************************)
EXTENDS Integers, Sequences, FiniteSets, TLC

VARIABLES
    cmd,                \* the sub-command being executed
    flags,              \* flag name -> value after command-line parsing
    changed,            \* the flags that were given on the command line
    tenant,             \* config.GetCurrentContext().Tenant
    fileState,          \* what lies at the path obj.json
    pc,                 \* position of the invocation
    calls,              \* the network calls issued so far, with their outcome
    logs,               \* the log lines written so far
    objectStruct,       \* insertObject / insertPatchObject: the parsed body
    layerID,            \* insertObject / insertPatchObject: local layerID
    filterQuery,        \* getSolutionStatus: local filterQuery
    query,              \* getSolutionStatus: local query
    requestHeaders,     \* getSolutionStatus: local headers
    uploadStatusItem,   \* fetchValuesAndPrint: local uploadStatusItem
    installStatusItem,  \* fetchValuesAndPrint: local installStatusItem
    printed             \* the table handed to output.PrintCmdOutputCustom

vars == <<cmd, flags, changed, tenant, fileState, pc, calls, logs,
          objectStruct, layerID, filterQuery, query, requestHeaders,
          uploadStatusItem, installStatusItem, printed>>

(***************************************************************************)
(* Bounds and input sets.                                                  *)
(***************************************************************************)
MaxItems == 2     \* longest `items` array a response carries

Empty == <<>>     \* the Go string ""

Commands == {"create", "create-patch", "status"}

ObjTypes == { <<"k8s", ":", "resource">>, <<"extensibility", ":", "solution">> }

LayerTypes == { <<"TENANT">>, <<"SOLUTION">>, <<"CUSTOM">> }

LayerIds == { Empty, <<"custom-1">> }

ParentIds == { Empty, <<"obj-1">> }

Tenants == { <<"acme">>, Empty }

Paths == { <<"obj.json">> }

Names == { <<"mySolution">>, <<"other">> }

Versions == { Empty, <<"1.2.0">> }

StatusTypes == { Empty, <<"upload">>, <<"install">>, <<"all">>, <<"bogus">> }

\* content of the object file: a JSON object, the JSON literal null, another
\* JSON value, text that is not JSON, nothing at all; or no file
FileStates == {"missing", "object", "null", "array", "malformed", "empty"}

\* nothing was handed to the output formatter
NoRow == [Headers |-> <<>>, Lines |-> <<>>, Detail |-> FALSE]

StatusData(installTime, installMessage, successfulInstall, solutionName, solutionVersion) ==
    [InstallTime |-> installTime, InstallMessage |-> installMessage,
     SuccessfulInstall |-> successfulInstall, SolutionName |-> solutionName,
     SolutionVersion |-> solutionVersion]

StatusItem(data, createdAt) == [StatusData |-> data, CreatedAt |-> createdAt]

\* var emptyData StatusItem: the Go zero value
emptyData == StatusItem(StatusData("", "", FALSE, "", ""), "")

\* records a status resource may hold
Items ==
    { StatusItem(StatusData("", "", FALSE, "mySolution", "1.2.0"), "t1"),
      StatusItem(StatusData("t2", "installed", TRUE, "mySolution", "1.2.0"), "t3"),
      StatusItem(StatusData("t4", "failed", FALSE, "other", "1.0.0"), "t5") }

\* the `items` arrays a response may carry
Responses == UNION { [1..n -> Items] : n \in 0..MaxItems }

(***************************************************************************)
(* Flag registration (cobra).  Every flag is registered with               *)
(* cmd.Flags().String(name, "", ...): a local flag with default "".        *)
(***************************************************************************)
LocalFlags(c) ==
    CASE c = "create"       -> {"type", "object-file", "layer-type", "layer-id"}
      [] c = "create-patch" -> {"type", "parent-object-id", "object-file",
                                "target-layer-type"}
      [] c = "status"       -> {"name", "solution-version", "status-type"}

\* no command registers a flag with PersistentFlags()
PersistentFlags(c) == {}

\* names passed to MarkPersistentFlagRequired
MarkedPersistentRequired(c) ==
    CASE c = "create"       -> {"type", "objectFile", "layer-type"}
      [] c = "create-patch" -> {"type", "parent-object-id", "objectFile",
                                "target-layer-type"}
      [] c = "status"       -> {}

\* names passed to MarkFlagRequired
MarkedRequired(c) ==
    CASE c = "status" -> {"name"}
      [] OTHER        -> {}

\* MarkPersistentFlagRequired annotates a flag of the persistent flag set and
\* MarkFlagRequired one of the local flag set; for a name the set does not
\* hold they return an error, which the code discards with `_ =`.
RequiredFlags(c) ==
    (MarkedPersistentRequired(c) \cap PersistentFlags(c))
        \cup (MarkedRequired(c) \cap LocalFlags(c))

FlagValues(f) ==
    CASE f = "type"              -> ObjTypes
      [] f = "object-file"       -> Paths
      [] f = "layer-type"        -> LayerTypes
      [] f = "target-layer-type" -> LayerTypes
      [] f = "layer-id"          -> LayerIds
      [] f = "parent-object-id"  -> ParentIds
      [] f = "name"              -> Names
      [] f = "solution-version"  -> Versions
      [] f = "status-type"       -> StatusTypes

\* cmd.Flags().GetString(name)
GetString(f) == flags[f]

\* cmd.Flags().Changed(name)
Changed(f) == f \in changed

(***************************************************************************)
(* Helpers on token sequences.                                             *)
(***************************************************************************)
RECURSIVE SplitFirst(_, _)
\* strings.Split(s, sep)[0]
SplitFirst(s, sep) ==
    IF s = <<>> \/ Head(s) = sep THEN <<>>
    ELSE <<Head(s)>> \o SplitFirst(Tail(s), sep)

EscapeToken(t) ==
    CASE t = " "  -> "+"
      [] t = "\"" -> "%22"
      [] t = ":"  -> "%3A"
      [] OTHER    -> t

\* url.QueryEscape
QueryEscape(s) == [i \in 1..Len(s) |-> EscapeToken(s[i])]

RECURSIVE Sprintf(_, _)
\* fmt.Sprintf(format, args...) for formats whose only verb is %s
Sprintf(format, args) ==
    IF format = <<>> THEN <<>>
    ELSE IF Head(format) = "%s"
         THEN Head(args) \o Sprintf(Tail(format), Tail(args))
         ELSE <<Head(format)>> \o Sprintf(Tail(format), args)

\* fmt.Sprintf("%v", b) for a bool
SprintBool(b) == IF b THEN "true" ELSE "false"

Headers(layerType, id) ==
    [h \in {"layer-type", "layer-id"} |->
        IF h = "layer-type" THEN layerType ELSE id]

Log(level, msg) == Append(logs, [level |-> level, msg |-> msg])

Call(method, url, headers, body, ok, items) ==
    [method |-> method, url |-> url, headers |-> headers, body |-> body,
     ok |-> ok, items |-> items]

(***************************************************************************)
(* File loading: os.Open, io.ReadAll, json.Unmarshal into a                *)
(* map[string]interface{}.                                                 *)
(***************************************************************************)
\* os.Open(path) returns an error
OpenFails(path) == path = Empty \/ fileState = "missing"

\* json.Unmarshal(bytes, &objectStruct) with objectStruct a nil map: a JSON
\* object fills the map, the JSON literal null leaves it nil without an
\* error, every other input is an error
Unmarshal(content) ==
    CASE content = "object" -> [err |-> FALSE, value |-> "map"]
      [] content = "null"   -> [err |-> FALSE, value |-> "nil"]
      [] OTHER              -> [err |-> TRUE,  value |-> "nil"]

(***************************************************************************)
(* Layer resolver.                                                         *)
(***************************************************************************)
\* getCorrectLayerID is defined outside the files at hand.  A TENANT layer
\* derives the tenant of the current context; a SOLUTION layer, for which the
\* --layer-id help text also calls the flag optional, derives the solution
\* prefix of the object type; no other layer type derives an id.
getCorrectLayerID(layerType, objType) ==
    CASE layerType = <<"TENANT">>   -> tenant
      [] layerType = <<"SOLUTION">> -> SplitFirst(objType, ":")
      [] OTHER                      -> Empty

getObjStoreObjectUrl == <<"objstore/v1beta/objects">>

(***************************************************************************)
(* Initial states: a command line, the tenant of the current context and   *)
(* the object file.                                                        *)
(***************************************************************************)
Init ==
    /\ cmd \in Commands
    /\ changed \in SUBSET LocalFlags(cmd)
    /\ flags \in [LocalFlags(cmd) -> UNION {FlagValues(f) : f \in LocalFlags(cmd)}]
    /\ \A f \in LocalFlags(cmd) :
          IF f \in changed THEN flags[f] \in FlagValues(f) ELSE flags[f] = Empty
    /\ tenant \in Tenants
    /\ fileState \in (IF cmd = "status" THEN {"missing"} ELSE FileStates)
    /\ pc = "start"
    /\ calls = <<>>
    /\ logs = <<>>
    /\ objectStruct = "nil"
    /\ layerID = Empty
    /\ filterQuery = Empty
    /\ query = Empty
    /\ requestHeaders = Headers(Empty, Empty)
    /\ uploadStatusItem = emptyData
    /\ installStatusItem = emptyData
    /\ printed = NoRow

(***************************************************************************)
(* cobra: a command whose required flags were not all given ends with a    *)
(* usage error and its Run function is not called.                         *)
(***************************************************************************)
Execute ==
    /\ pc = "start"
    /\ IF RequiredFlags(cmd) \subseteq changed
       THEN /\ pc' = "run"
            /\ logs' = logs
       ELSE /\ pc' = "usage"
            /\ logs' = Log("error", "required flag(s) not set")
    /\ UNCHANGED <<cmd, flags, changed, tenant, fileState, calls, objectStruct,
                   layerID, filterQuery, query, requestHeaders,
                   uploadStatusItem, installStatusItem, printed>>

(***************************************************************************)
(* objstore create                                                         *)
(***************************************************************************)
\* insertObject up to the parsed object
insertObjectLoad ==
    /\ cmd = "create" /\ pc = "run"
    /\ IF OpenFails(GetString("object-file"))
       THEN /\ logs' = Log("error", "Can't find the object definition file")
            /\ pc' = "done"
            /\ UNCHANGED objectStruct
       ELSE LET r == Unmarshal(fileState) IN
            IF r.err
            THEN /\ logs' = Log("error", "Can't generate an object from the file")
                 /\ pc' = "done"
                 /\ UNCHANGED objectStruct
            ELSE /\ objectStruct' = r.value
                 /\ pc' = "resolve"
                 /\ UNCHANGED logs
    /\ UNCHANGED <<cmd, flags, changed, tenant, fileState, calls, layerID,
                   filterQuery, query, requestHeaders, uploadStatusItem,
                   installStatusItem, printed>>

\* a resolver that lets a supplied --layer-id win over the derived one
insertObjectResolveSuppliedFirst ==
    /\ cmd = "create" /\ pc = "resolve"
    /\ LET derived == getCorrectLayerID(GetString("layer-type"), GetString("type")) IN
       IF Changed("layer-id")
       THEN /\ layerID' = GetString("layer-id")
            /\ pc' = "post"
            /\ UNCHANGED logs
       ELSE IF derived = Empty
       THEN /\ logs' = Log("error", "Unable to set layer-id flag from given context")
            /\ pc' = "done"
            /\ UNCHANGED layerID
       ELSE /\ layerID' = derived
            /\ pc' = "post"
            /\ UNCHANGED logs
    /\ UNCHANGED <<cmd, flags, changed, tenant, fileState, calls, objectStruct,
                   filterQuery, query, requestHeaders, uploadStatusItem,
                   installStatusItem, printed>>

\* insertObject: the layer-id decision
insertObjectResolve ==
    /\ cmd = "create" /\ pc = "resolve"
    /\ LET derived == getCorrectLayerID(GetString("layer-type"), GetString("type")) IN
       IF derived = Empty
       THEN IF ~Changed("layer-id")
            THEN /\ logs' = Log("error", "Unable to set layer-id flag from given context")
                 /\ pc' = "done"
                 /\ UNCHANGED layerID
            ELSE /\ layerID' = GetString("layer-id")
                 /\ pc' = "post"
                 /\ UNCHANGED logs
       ELSE /\ layerID' = derived
            /\ pc' = "post"
            /\ UNCHANGED logs
    /\ UNCHANGED <<cmd, flags, changed, tenant, fileState, calls, objectStruct,
                   filterQuery, query, requestHeaders, uploadStatusItem,
                   installStatusItem, printed>>

\* insertObject: api.JSONPost and the report of its result
insertObjectPost ==
    /\ cmd = "create" /\ pc = "post"
    /\ \E ok \in BOOLEAN :
          /\ calls' = Append(calls,
                 Call("POST", getObjStoreObjectUrl \o <<"/">> \o GetString("type"),
                      Headers(GetString("layer-type"), layerID), objectStruct,
                      ok, <<>>))
          /\ logs' = IF ok THEN Log("info", "Successfully created object")
                           ELSE Log("error", "objstore command failed")
    /\ pc' = "done"
    /\ UNCHANGED <<cmd, flags, changed, tenant, fileState, objectStruct, layerID,
                   filterQuery, query, requestHeaders, uploadStatusItem,
                   installStatusItem, printed>>

(***************************************************************************)
(* objstore create-patch                                                   *)
(***************************************************************************)
\* insertPatchObject up to the parsed object
insertPatchObjectLoad ==
    /\ cmd = "create-patch" /\ pc = "run"
    /\ IF OpenFails(GetString("object-file"))
       THEN /\ logs' = Log("error", "Can't find the object definition file")
            /\ pc' = "done"
            /\ UNCHANGED objectStruct
       ELSE LET r == Unmarshal(fileState) IN
            IF r.err
            THEN /\ logs' = Log("error", "Can't generate an object from the file")
                 /\ pc' = "done"
                 /\ UNCHANGED objectStruct
            ELSE /\ objectStruct' = r.value
                 /\ pc' = "patch"
                 /\ UNCHANGED logs
    /\ UNCHANGED <<cmd, flags, changed, tenant, fileState, calls, layerID,
                   filterQuery, query, requestHeaders, uploadStatusItem,
                   installStatusItem, printed>>

\* insertPatchObject: layer-id, api.JSONPatch and the report of its result
insertPatchObjectPatch ==
    /\ cmd = "create-patch" /\ pc = "patch"
    /\ layerID' = getCorrectLayerID(GetString("target-layer-type"), GetString("type"))
    /\ \E ok \in BOOLEAN :
          /\ calls' = Append(calls,
                 Call("PATCH",
                      getObjStoreObjectUrl \o <<"/">> \o GetString("type")
                          \o <<"/">> \o GetString("parent-object-id"),
                      Headers(GetString("target-layer-type"), layerID'),
                      objectStruct, ok, <<>>))
          /\ logs' = IF ok THEN Log("info", "Successfully created patched object")
                           ELSE Log("error", "Creating a patched object command failed")
    /\ pc' = "done"
    /\ UNCHANGED <<cmd, flags, changed, tenant, fileState, objectStruct,
                   filterQuery, query, requestHeaders, uploadStatusItem,
                   installStatusItem, printed>>

(***************************************************************************)
(* solution status                                                         *)
(***************************************************************************)
getSolutionReleaseUrl ==
    <<"objstore/v1beta/objects/extensibility:solutionRelease", "%s">>

\* the install lookup sent to the release resource
getSolutionInstallUrlRelease ==
    <<"objstore/v1beta/objects/extensibility:solutionRelease", "%s">>

getSolutionInstallUrl ==
    <<"objstore/v1beta/objects/extensibility:solutionInstall", "%s">>

\* a filter that drops the version clause
buildFilterQueryNameOnly(solutionName, solutionVersion) ==
    Sprintf(<<"data.solutionName", " ", "eq", " ", "\"", "%s", "\"">>,
            <<solutionName>>)

\* getSolutionStatus: the filter expression
buildFilterQuery(solutionName, solutionVersion) ==
    IF solutionVersion # Empty
    THEN Sprintf(<<"data.solutionName", " ", "eq", " ", "\"", "%s", "\"", " ",
                   "and", " ", "data.solutionVersion", " ", "eq", " ", "\"",
                   "%s", "\"">>, <<solutionName, solutionVersion>>)
    ELSE Sprintf(<<"data.solutionName", " ", "eq", " ", "\"", "%s", "\"">>,
                 <<solutionName>>)

\* getSolutionStatus up to the call of fetchValuesAndPrint
getSolutionStatus ==
    /\ cmd = "status" /\ pc = "run"
    /\ requestHeaders' = Headers(<<"TENANT">>, tenant)
    /\ filterQuery' = buildFilterQuery(GetString("name"), GetString("solution-version"))
    /\ query' = Sprintf(<<"?order=", "%s", "&filter=", "%s", "&max=1">>,
                        <<QueryEscape(<<"desc">>), QueryEscape(filterQuery')>>)
    /\ pc' = "getRelease"
    /\ UNCHANGED <<cmd, flags, changed, tenant, fileState, calls, logs,
                   objectStruct, layerID, uploadStatusItem, installStatusItem,
                   printed>>

\* a getObject that logs the failure and carries on with the empty record
getObjectNotFatal(ok, items) ==
    IF ~ok THEN [fatal |-> FALSE, item |-> emptyData]
    ELSE IF Len(items) > 0 THEN [fatal |-> FALSE, item |-> items[1]]
    ELSE [fatal |-> FALSE, item |-> emptyData]

\* a getObject that takes the last item of the response
getObjectLast(ok, items) ==
    IF ~ok THEN [fatal |-> TRUE, item |-> emptyData]
    ELSE IF Len(items) > 0 THEN [fatal |-> FALSE, item |-> items[Len(items)]]
    ELSE [fatal |-> FALSE, item |-> emptyData]

\* getObject after api.HTTPGet returned: log.Fatalf ends the process
getObject(ok, items) ==
    IF ~ok THEN [fatal |-> TRUE, item |-> emptyData]
    ELSE IF Len(items) > 0 THEN [fatal |-> FALSE, item |-> items[1]]
    ELSE [fatal |-> FALSE, item |-> emptyData]

\* fetchValuesAndPrint: the first getObject, on the solutionRelease resource
fetchRelease ==
    /\ cmd = "status" /\ pc = "getRelease"
    /\ \E ok \in BOOLEAN, items \in Responses :
          /\ ok \/ items = <<>>
          /\ calls' = Append(calls,
                 Call("GET", Sprintf(getSolutionReleaseUrl, <<query>>),
                      requestHeaders, "none", ok, items))
          /\ LET r == getObject(ok, items) IN
             IF r.fatal
             THEN /\ logs' = Log("fatal", "Issue fetching install/upload object")
                  /\ pc' = "exited"
                  /\ UNCHANGED uploadStatusItem
             ELSE /\ uploadStatusItem' = r.item
                  /\ pc' = "getInstall"
                  /\ UNCHANGED logs
    /\ UNCHANGED <<cmd, flags, changed, tenant, fileState, objectStruct, layerID,
                   filterQuery, query, requestHeaders, installStatusItem, printed>>

\* fetchValuesAndPrint: the second getObject, on the solutionInstall resource
fetchInstall ==
    /\ cmd = "status" /\ pc = "getInstall"
    /\ \E ok \in BOOLEAN, items \in Responses :
          /\ ok \/ items = <<>>
          /\ calls' = Append(calls,
                 Call("GET", Sprintf(getSolutionInstallUrl, <<query>>),
                      requestHeaders, "none", ok, items))
          /\ LET r == getObject(ok, items) IN
             IF r.fatal
             THEN /\ logs' = Log("fatal", "Issue fetching install/upload object")
                  /\ pc' = "exited"
                  /\ UNCHANGED installStatusItem
             ELSE /\ installStatusItem' = r.item
                  /\ pc' = "print"
                  /\ UNCHANGED logs
    /\ UNCHANGED <<cmd, flags, changed, tenant, fileState, objectStruct, layerID,
                   filterQuery, query, requestHeaders, uploadStatusItem, printed>>

\* a row whose default branch is the install branch
buildRowDefaultInstall(operation, uploadItem, installItem) ==
    LET installStatusData == installItem.StatusData
        uploadStatusData == uploadItem.StatusData
        upload == << <<"Solution Upload Version", uploadStatusData.SolutionVersion>>,
                     <<"Upload Timestamp", uploadItem.CreatedAt>> >>
        install ==
            << <<"Solution Install Version", installStatusData.SolutionVersion>>,
               <<"Solution Install Successful?",
                 SprintBool(installStatusData.SuccessfulInstall)>>,
               <<"Solution Install Time", installStatusData.InstallTime>>,
               <<"Solution Install Message", installStatusData.InstallMessage>> >>
        pairs == << <<"Solution Name", uploadStatusData.SolutionName>> >> \o
                 (IF operation = <<"upload">> THEN upload ELSE install)
    IN  [Headers |-> [i \in 1..Len(pairs) |-> pairs[i][1]],
         Lines |-> << [i \in 1..Len(pairs) |-> pairs[i][2]] >>,
         Detail |-> TRUE]

\* a row whose name cell follows the side that is displayed
buildRowNameOfDisplayedSide(operation, uploadItem, installItem) ==
    LET installStatusData == installItem.StatusData
        uploadStatusData == uploadItem.StatusData
        upload == << <<"Solution Upload Version", uploadStatusData.SolutionVersion>>,
                     <<"Upload Timestamp", uploadItem.CreatedAt>> >>
        install ==
            << <<"Solution Install Version", installStatusData.SolutionVersion>>,
               <<"Solution Install Successful?",
                 SprintBool(installStatusData.SuccessfulInstall)>>,
               <<"Solution Install Time", installStatusData.InstallTime>>,
               <<"Solution Install Message", installStatusData.InstallMessage>> >>
        pairs == IF operation = <<"upload">>
                 THEN << <<"Solution Name", uploadStatusData.SolutionName>> >> \o upload
                 ELSE IF operation = <<"install">>
                 THEN << <<"Solution Name", installStatusData.SolutionName>> >> \o install
                 ELSE << <<"Solution Name", uploadStatusData.SolutionName>> >>
                          \o upload \o install
    IN  [Headers |-> [i \in 1..Len(pairs) |-> pairs[i][1]],
         Lines |-> << [i \in 1..Len(pairs) |-> pairs[i][2]] >>,
         Detail |-> TRUE]

\* fetchValuesAndPrint: headers and values of the row
buildRow(operation, uploadItem, installItem) ==
    LET installStatusData == installItem.StatusData
        uploadStatusData == uploadItem.StatusData
        uploadStatusTimestamp == uploadItem.CreatedAt
        upload == << <<"Solution Upload Version", uploadStatusData.SolutionVersion>>,
                     <<"Upload Timestamp", uploadStatusTimestamp>> >>
        install ==
            << <<"Solution Install Version", installStatusData.SolutionVersion>>,
               <<"Solution Install Successful?",
                 SprintBool(installStatusData.SuccessfulInstall)>>,
               <<"Solution Install Time", installStatusData.InstallTime>>,
               <<"Solution Install Message", installStatusData.InstallMessage>> >>
        pairs == << <<"Solution Name", uploadStatusData.SolutionName>> >> \o
                 (IF operation = <<"upload">> THEN upload
                  ELSE IF operation = <<"install">> THEN install
                  ELSE upload \o install)
    IN  [Headers |-> [i \in 1..Len(pairs) |-> pairs[i][1]],
         Lines |-> << [i \in 1..Len(pairs) |-> pairs[i][2]] >>,
         Detail |-> TRUE]

\* fetchValuesAndPrint: output.PrintCmdOutputCustom, then getSolutionStatus returns
printRow ==
    /\ cmd = "status" /\ pc = "print"
    /\ printed' = buildRow(GetString("status-type"), uploadStatusItem, installStatusItem)
    /\ pc' = "done"
    /\ UNCHANGED <<cmd, flags, changed, tenant, fileState, calls, logs,
                   objectStruct, layerID, filterQuery, query, requestHeaders,
                   uploadStatusItem, installStatusItem>>

Next ==
    \/ Execute
    \/ insertObjectLoad
    \/ insertObjectResolve
    \/ insertObjectPost
    \/ insertPatchObjectLoad
    \/ insertPatchObjectPatch
    \/ getSolutionStatus
    \/ fetchRelease
    \/ fetchInstall
    \/ printRow

Spec == Init /\ [][Next]_vars
(***************************************************************************)
(* Properties.                                                             *)
(***************************************************************************)
HasLog(msg) == \E i \in 1..Len(logs) : logs[i].msg = msg

HasLevel(level) == \E i \in 1..Len(logs) : logs[i].level = level

Writes == {"POST", "PATCH"}

IsWrite == cmd \in {"create", "create-patch"}

\* the file-load step of a write command got past open and parse
Loaded == /\ ~HasLog("Can't find the object definition file")
          /\ ~HasLog("Can't generate an object from the file")

\* C1: every write request that is sent, the POST of create and the PATCH of
\* create-patch, carries a non-empty layer-id header.
C1_WritesCarryLayerId ==
    \A i \in 1..Len(calls) :
        calls[i].method \in Writes => calls[i].headers["layer-id"] # Empty

C3_BadFileNoCall ==
    (IsWrite /\ (OpenFails(flags["object-file"]) \/ fileState # "object")) =>
        /\ calls = <<>>
        /\ ~HasLevel("info")
        /\ pc = "done" => HasLevel("error")

\* C4: create-patch never issues a PATCH to objects/{objectType}/{parentObjectId}
\* with an empty parentObjectId.
C4_PatchHasParentId ==
    \A i \in 1..Len(calls) :
        calls[i].method = "PATCH" =>
            calls[i].url # getObjStoreObjectUrl \o <<"/">> \o flags["type"] \o <<"/">>

\* C5: a status invocation without transport failure issues exactly two calls,
\* both GETs: the solutionRelease resource first, the solutionInstall resource
\* second, with the same query string and the headers {layer-type: TENANT,
\* layer-id: tenant}; the row is printed only after both returned.
C5_StatusTwoReads ==
    cmd = "status" =>
        /\ \A i \in 1..Len(calls) :
              /\ calls[i].method = "GET"
              /\ calls[i].headers["layer-type"] = <<"TENANT">>
              /\ calls[i].headers["layer-id"] = tenant
        /\ Len(calls) <= 2
        /\ Len(calls) >= 1 =>
              calls[1].url =
                  <<"objstore/v1beta/objects/extensibility:solutionRelease">> \o query
        /\ Len(calls) = 2 =>
              calls[2].url =
                  <<"objstore/v1beta/objects/extensibility:solutionInstall">> \o query
        /\ pc = "done" => Len(calls) = 2 /\ calls[1].ok /\ calls[2].ok
        /\ printed # NoRow => pc = "done" /\ Len(calls) = 2

C5_Witness ==
    /\ cmd = "status" /\ pc = "done" /\ printed # NoRow
    /\ flags["status-type"] = <<"install">>
    /\ Len(calls) = 2 /\ calls[1].ok /\ calls[2].ok

ExpectedHeaders(statusType) ==
    IF statusType = <<"upload">>
    THEN <<"Solution Name", "Solution Upload Version", "Upload Timestamp">>
    ELSE IF statusType = <<"install">>
    THEN <<"Solution Name", "Solution Install Version",
           "Solution Install Successful?", "Solution Install Time",
           "Solution Install Message">>
    ELSE <<"Solution Name", "Solution Upload Version", "Upload Timestamp",
           "Solution Install Version", "Solution Install Successful?",
           "Solution Install Time", "Solution Install Message">>

\* the cell below a header, from the release record r and the install record n
ExpectedCell(header, r, n) ==
    CASE header = "Solution Name"                -> r.StatusData.SolutionName
      [] header = "Solution Upload Version"      -> r.StatusData.SolutionVersion
      [] header = "Upload Timestamp"             -> r.CreatedAt
      [] header = "Solution Install Version"     -> n.StatusData.SolutionVersion
      [] header = "Solution Install Successful?" ->
             IF n.StatusData.SuccessfulInstall THEN "true" ELSE "false"
      [] header = "Solution Install Time"        -> n.StatusData.InstallTime
      [] header = "Solution Install Message"     -> n.StatusData.InstallMessage

\* the record a successful call yields: its first item, or the zero record
RecordOf(call) ==
    IF call.items = <<>>
    THEN [StatusData |-> [InstallTime |-> "", InstallMessage |-> "",
                          SuccessfulInstall |-> FALSE, SolutionName |-> "",
                          SolutionVersion |-> ""],
          CreatedAt |-> ""]
    ELSE call.items[1]

\* C6: the columns of the status row depend on status-type alone: name, upload
\* version and upload timestamp for "upload"; name, install version, install
\* successful, install time and install message for "install"; all seven, in
\* that order, for any other value.  Headers and values have the same length,
\* upload cells come from the release record and install cells from the
\* install record.
C6_RowColumns ==
    (cmd = "status" /\ pc = "done") =>
        LET h == ExpectedHeaders(flags["status-type"]) IN
        /\ printed.Headers = h
        /\ Len(printed.Lines) = 1
        /\ Len(printed.Lines[1]) = Len(printed.Headers)
        /\ \A i \in 1..Len(h) :
              printed.Lines[1][i] = ExpectedCell(h[i], RecordOf(calls[1]), RecordOf(calls[2]))

C6_Witness ==
    /\ cmd = "status" /\ pc = "done"
    /\ flags["status-type"] = <<"bogus">>
    /\ Len(printed.Headers) = 7
    /\ calls[1].items # <<>> /\ calls[2].items # <<>>
    /\ calls[1].items[1] # calls[2].items[1]

\* C7: in status a transport failure on either GET ends the command: no row is
\* printed in an execution where a GET failed, and when the first GET fails
\* the second is never issued.
C7_TransportFailureFatal ==
    cmd = "status" =>
        /\ (\E i \in 1..Len(calls) : ~calls[i].ok) =>
              /\ printed = NoRow
              /\ pc = "exited"
              /\ ~calls[Len(calls)].ok
        /\ (Len(calls) >= 1 /\ ~calls[1].ok) => Len(calls) = 1

C7_Witness ==
    /\ cmd = "status" /\ pc = "exited"
    /\ Len(calls) = 2 /\ calls[1].ok /\ ~calls[2].ok
    /\ printed = NoRow

\* C8: in status a successful GET that returns no item is not an error: it
\* yields the record with all fields zero, the other GET is still issued and
\* the row is still printed; of a response with items only the first is used.
C8_EmptyResultNotError ==
    cmd = "status" =>
        /\ (Len(calls) >= 1 /\ calls[1].ok) =>
              /\ uploadStatusItem = RecordOf(calls[1])
              /\ Len(calls) = 1 => pc = "getInstall"
        /\ (Len(calls) = 2 /\ calls[2].ok) =>
              /\ installStatusItem = RecordOf(calls[2])
              /\ pc \in {"print", "done"}
        /\ (Len(calls) >= 1 /\ \A i \in 1..Len(calls) : calls[i].ok) =>
              /\ ~HasLevel("fatal") /\ ~HasLevel("error")
              /\ pc # "exited"
        /\ pc = "done" => printed # NoRow

C8_Witness ==
    /\ cmd = "status" /\ pc = "done" /\ printed # NoRow
    /\ Len(calls) = 2
    /\ calls[1].items = <<>> /\ uploadStatusItem.StatusData.SolutionName = ""
    /\ Len(calls[2].items) = 2 /\ calls[2].items[1] # calls[2].items[2]
    /\ installStatusItem = calls[2].items[1]

RECURSIVE Count(_, _)
\* occurrences of the token t in s
Count(s, t) ==
    IF s = <<>> THEN 0
    ELSE (IF Head(s) = t THEN 1 ELSE 0) + Count(Tail(s), t)

\* C9: the status filter is a function of (name, version): one clause,
\* data.solutionName eq name, when version is empty, and that clause and
\* data.solutionVersion eq version when it is not; the query requests
\* order=desc and max=1, and both sub-queries carry the same query.
C9_FilterConstruction ==
    (cmd = "status" /\ pc \in {"getRelease", "getInstall", "print", "done", "exited"}) =>
        LET name == flags["name"]
            version == flags["solution-version"]
            nameClause == <<"data.solutionName", " ", "eq", " ", "\"">> \o name \o <<"\"">>
            versionClause ==
                <<"data.solutionVersion", " ", "eq", " ", "\"">> \o version \o <<"\"">>
            nameEscaped == <<"data.solutionName", "+", "eq", "+", "%22">> \o name \o <<"%22">>
            versionEscaped ==
                <<"data.solutionVersion", "+", "eq", "+", "%22">> \o version \o <<"%22">>
        IN  /\ filterQuery = IF version = Empty THEN nameClause
                             ELSE nameClause \o <<" ", "and", " ">> \o versionClause
            /\ Count(filterQuery, "eq") = IF version = Empty THEN 1 ELSE 2
            /\ query = <<"?order=", "desc", "&filter=">>
                       \o (IF version = Empty THEN nameEscaped
                           ELSE nameEscaped \o <<"+", "and", "+">> \o versionEscaped)
                       \o <<"&max=1">>
            /\ \A i \in 1..Len(calls) :
                  SubSeq(calls[i].url, 2, Len(calls[i].url)) = query

C9_Witness ==
    /\ cmd = "status" /\ pc = "done"
    /\ flags["name"] = <<"mySolution">> /\ flags["solution-version"] = <<"1.2.0">>
    /\ Count(filterQuery, "eq") = 2
    /\ Len(calls) = 2 /\ calls[1].url # calls[2].url

\* C10: the Solution Name cell of the status row is taken from the release
\* record for every status-type, "install" included: when the release query
\* returns no item and the install query returns one, an "install" row has an
\* empty Solution Name next to the install record's fields.
C10_NameFromRelease ==
    (cmd = "status" /\ pc = "done") =>
        /\ printed.Headers[1] = "Solution Name"
        /\ printed.Lines[1][1] = RecordOf(calls[1]).StatusData.SolutionName
        /\ (flags["status-type"] = <<"install">> /\ calls[1].items = <<>>) =>
              /\ printed.Lines[1][1] = ""
              /\ printed.Lines[1][2] = RecordOf(calls[2]).StatusData.SolutionVersion

C10_Witness ==
    /\ cmd = "status" /\ pc = "done"
    /\ flags["status-type"] = <<"install">>
    /\ calls[1].items = <<>> /\ calls[2].items # <<>>
    /\ printed.Lines[1][1] = ""
    /\ printed.Lines[1][2] # "" /\ printed.Lines[1][4] # ""
    /\ calls[2].items[1].StatusData.SolutionName # ""
====
